---- MODULE Spec2Model ----
(***************************************************************************)
(* Model of the two request handlers of the repository:                    *)
(*   - src/app.py: the Flask process (initialize_azure_client, /upload-pdf,*)
(*     /ask-question, chat_with_phi4_rag);                                 *)
(*   - src/lambda_function.py: the AWS Lambda entry point lambda_handler.  *)
(* Strings are sequences of text fragments; a fragment " " is whitespace.  *)
(* A JSON object is a function from its keys to values; JSON text is the   *)
(* one-element sequence holding the encoded object, '' the empty sequence. *)
(***************************************************************************)
EXTENDS Integers, Sequences, FiniteSets, TLC

\* Number of request slots handled concurrently by the server / runtime.
NReq == 2
Reqs == 1..NReq

----------------------------------------------------------------------------
(* Strings *)

Whitespace == {" "}

RECURSIVE lstrip(_)
lstrip(s) ==
    IF s = << >> THEN s
    ELSE IF Head(s) \in Whitespace THEN lstrip(Tail(s)) ELSE s

RECURSIVE rstrip(_)
rstrip(s) ==
    IF s = << >> THEN s
    ELSE IF s[Len(s)] \in Whitespace THEN rstrip(SubSeq(s, 1, Len(s) - 1)) ELSE s

\* str.strip(): drop leading and trailing whitespace
strip(s) == rstrip(lstrip(s))

\* str.lower() on the letters the model uses
LowerChar(c) ==
    IF c = "P" THEN "p" ELSE IF c = "D" THEN "d" ELSE IF c = "F" THEN "f" ELSE c

lower(s) == [i \in 1..Len(s) |-> LowerChar(s[i])]

\* index of the last '.' of s, 0 when there is none
LastDot(s) ==
    LET dots == {i \in 1..Len(s) : s[i] = "."}
    IN IF dots = {} THEN 0 ELSE CHOOSE i \in dots : \A j \in dots : j <= i

\* filename.rsplit('.', 1)[1]
rsplit_ext(s) == SubSeq(s, LastDot(s) + 1, Len(s))

\* allowed_file(filename)
allowed_file(filename) ==
    /\ LastDot(filename) # 0
    /\ lower(rsplit_ext(filename)) = <<"p", "d", "f">>

----------------------------------------------------------------------------
(* JSON *)

\* dict.get(key, '')
get(obj, key) == IF key \in DOMAIN obj THEN obj[key] ELSE << >>

\* json.dumps / jsonify: the text encoding one object (never the empty text)
dumps(obj) == <<obj>>

\* json.loads of a text produced by dumps
loads(text) == text[1]

EmptyObj == [k \in {} |-> << >>]

\* the message of an exception, str(e)
ExcMsgs == {<<"boom">>}


----------------------------------------------------------------------------
(* Inputs and collaborator outcomes *)

FieldVals == {<< >>, <<"x">>}

\* JSON objects carrying any subset of the keys context and question
Objects == UNION {[S -> FieldVals] : S \in SUBSET {"context", "question"}}

\* texts the model may generate
Outputs == {<<"a">>, <<" ", "a">>, <<"a", " ">>, <<" ">>}

\* uploaded file names
Filenames ==
    { << >>,
      <<"a">>,
      <<"a", ".", "p", "d", "f">>,
      <<"a", ".", "P", "D", "F">>,
      <<"a", ".", "p", "d", "f", ".", "t">>,
      <<"p", "d", "f">> }

NoInput ==
    [httpMethod |-> "", json |-> "", obj |-> EmptyObj, hasFile |-> FALSE,
     filename |-> << >>]

\* request.get_json() of a POST /ask-question request
AskInputs ==
    {[NoInput EXCEPT !.httpMethod = "POST", !.json = j] : j \in {"notjson", "nonobject"}}
    \cup
    {[NoInput EXCEPT !.httpMethod = "POST", !.json = "object", !.obj = o] : o \in Objects}

\* request.files of a POST /upload-pdf request
UploadInputs ==
    {[NoInput EXCEPT !.httpMethod = "POST"]}
    \cup
    {[NoInput EXCEPT !.httpMethod = "POST", !.hasFile = TRUE, !.filename = f] :
        f \in Filenames}

\* the event of a Lambda invocation: httpMethod and body
Events ==
    {[NoInput EXCEPT !.httpMethod = m, !.json = j] :
        m \in {"OPTIONS", "POST"}, j \in {"absent", "null", "notjson", "nonobject"}}
    \cup
    {[NoInput EXCEPT !.httpMethod = m, !.json = "object", !.obj = o] :
        m \in {"OPTIONS", "POST"}, o \in Objects}

\* what a collaborator call did: nothing yet, raised, returned a text, or
\* returned a response without the expected field
NoOutcome == [kind |-> "none", val |-> << >>]

Raised(e) == [kind |-> "raise", val |-> e]

Returned(s) == [kind |-> "ok", val |-> s]

Malformed == [kind |-> "malformed", val |-> << >>]

RemoteOutcomes ==
    {Raised(e) : e \in ExcMsgs} \cup {Returned(s) : s \in Outputs} \cup {Malformed}

\* PyPDF2.PdfReader / page.extract_text()
PdfOutcomes == {Raised(e) : e \in ExcMsgs} \cup {Returned(<<"a">>)}

----------------------------------------------------------------------------
(* Responses *)

Resp(status, headers, body) == [status |-> status, headers |-> headers, body |-> body]

NoResp == Resp(0, {}, << >>)

\* flask.jsonify(obj), status
jsonify(obj, status) == Resp(status, {"Content-Type"}, dumps(obj))

HasField(r, k) == r.body # << >> /\ k \in DOMAIN loads(r.body)

Field(r, k) == loads(r.body)[k]

----------------------------------------------------------------------------
(* State *)

VARIABLES
    variant,          \* deployment shape: "process" (app.py) or "function" (lambda_function.py)
    cred,             \* the cred.json file found under the working directory
    proc,             \* position of the Flask process: "boot", "serving", "exited"
    launch,           \* how app.py was loaded: "none", "main" (python app.py), "wsgi" (imported)
    project_client,   \* global project_client of app.py
    phi4_deployment,  \* global phi4_deployment of app.py
    h                 \* per request slot: position, input, collaborator outcome, response

vars == <<variant, cred, proc, launch, project_client, phi4_deployment, h>>

handle == <<project_client, phi4_deployment>>

ReqKeys == {"PROJECT_CONNECTION_STRING", "TENANT_ID", "MODEL_DEPLOYMENT_NAME"}

AllKeys == ReqKeys \cup {"SERVERLESS_MODEL_NAME"}

NoCred == [file |-> "absent", keys |-> {}]

\* contents of cred.json: absent, not JSON, JSON but not an object, or an
\* object with all keys, without the optional one, or lacking one required key
Creds ==
    {[file |-> f, keys |-> {}] : f \in {"absent", "badjson", "nonobject"}}
    \cup
    {[file |-> "object", keys |-> ks] :
        ks \in {AllKeys, ReqKeys} \cup {AllKeys \ {k} : k \in ReqKeys}}

Idle ==
    [pc |-> "idle", kind |-> "none", input |-> NoInput, outcome |-> NoOutcome,
     resp |-> NoResp, calls |-> 0, errs |-> {}]

Init ==
    /\ variant \in {"process", "function"}
    /\ cred \in (IF variant = "process" THEN Creds ELSE {NoCred})
    /\ proc = "boot"
    /\ launch = "none"
    /\ project_client = "None"
    /\ phi4_deployment = "None"
    /\ h = [r \in Reqs |-> Idle]

----------------------------------------------------------------------------
(* src/app.py: startup *)

\* find_cred_json(cwd): the path of cred.json, or None
find_cred_json(c) == IF c.file = "absent" THEN "None" ELSE "cred.json"

\* initialize_azure_client reading only the key it uses, cfg['PROJECT_CONNECTION_STRING']
initialize_azure_client_one_key(c, ctorOk, client0, dep0) ==
    LET failed(dep) == [ok |-> FALSE, project_client |-> client0, phi4_deployment |-> dep]
        dep1 == IF "SERVERLESS_MODEL_NAME" \in c.keys THEN "custom-model" ELSE "phi-4"
    IN  IF c.file # "object" THEN failed(dep0)
        ELSE IF "PROJECT_CONNECTION_STRING" \notin c.keys THEN failed(dep1)
        ELSE IF ~ctorOk THEN failed(dep1)
        ELSE [ok |-> TRUE, project_client |-> "AIProjectClient", phi4_deployment |-> dep1]

\* initialize_azure_client(): the return value and the globals it leaves, given
\* the file, whether AIProjectClient.from_connection_string returns, and the
\* globals before the call
initialize_azure_client(c, ctorOk, client0, dep0) ==
    LET failed(dep) == [ok |-> FALSE, project_client |-> client0, phi4_deployment |-> dep]
        dep1 == IF "SERVERLESS_MODEL_NAME" \in c.keys THEN "custom-model" ELSE "phi-4"
    IN  IF find_cred_json(c) = "None" THEN failed(dep0)          \* FileNotFoundError
        ELSE IF c.file = "badjson" THEN failed(dep0)             \* json.JSONDecodeError
        ELSE IF c.file = "nonobject" THEN failed(dep0)           \* cfg.get: AttributeError
        ELSE IF ~(ReqKeys \subseteq c.keys) THEN failed(dep1)    \* KeyError
        ELSE IF ~ctorOk THEN failed(dep1)                        \* Exception
        ELSE [ok |-> TRUE, project_client |-> "AIProjectClient", phi4_deployment |-> dep1]

\* python app.py: the __main__ block runs initialize_azure_client and calls
\* app.run only when it returned True
main ==
    /\ variant = "process"
    /\ proc = "boot"
    /\ \E ctorOk \in BOOLEAN :
         LET res == initialize_azure_client(cred, ctorOk, project_client, phi4_deployment)
         IN  /\ project_client' = res.project_client
             /\ phi4_deployment' = res.phi4_deployment
             /\ proc' = IF res.ok THEN "serving" ELSE "exited"
    /\ launch' = "main"
    /\ UNCHANGED <<variant, cred, h>>

\* the module imported by a WSGI server (flask run, gunicorn app:app):
\* __name__ is not '__main__', the routes of `app` are served with the globals
\* as the module body left them
wsgi_import ==
    /\ variant = "process"
    /\ proc = "boot"
    /\ proc' = "serving"
    /\ launch' = "wsgi"
    /\ UNCHANGED <<variant, cred, project_client, phi4_deployment, h>>

----------------------------------------------------------------------------
(* src/app.py: POST /ask-question *)

Slot(pc, kind, inp, out, resp, calls, errs) ==
    [pc |-> pc, kind |-> kind, input |-> inp, outcome |-> out, resp |-> resp,
     calls |-> calls, errs |-> errs]

MissingMsg == <<"Missing context or question">>

NotInitializedMsg == <<"Error: Azure AI Project client not initialized">>

CommunicationError(e) == <<"Error communicating with Azure AI Project: ">> \o e

\* the validation testing the context only
missing_context_only(obj) == get(obj, "context") = << >>

\* `not pdf_text or not question`
missing(obj) == get(obj, "context") = << >> \/ get(obj, "question") = << >>

\* what chat_with_phi4_rag returns once chat_client.complete has returned or
\* raised: response.choices[0].message.content, or the text of the except branch
chat_with_phi4_rag(out) ==
    IF out.kind = "ok" THEN out.val
    ELSE IF out.kind = "raise" THEN CommunicationError(out.val)
    ELSE CommunicationError(<<"list index out of range">>)

\* the success return of ask_question
ask_answer(answer) == jsonify([answer |-> answer, success |-> TRUE], 200)

\* ask_question up to the point where chat_client.complete is entered:
\* get_json, validation, and the client check of chat_with_phi4_rag
ask_question_slot(inp, client) ==
    IF inp.json # "object"
      THEN Slot("done", "ask", inp, NoOutcome,
                jsonify([error |-> <<"get_json failed">>], 500), 0, {"parse"})
    ELSE IF missing(inp.obj)
      THEN Slot("done", "ask", inp, NoOutcome,
                jsonify([error |-> MissingMsg], 400), 0, {"validation"})
    ELSE IF client = "None"
      THEN Slot("done", "ask", inp, NoOutcome,
                ask_answer(NotInitializedMsg), 0, {"configuration"})
    ELSE Slot("calling", "ask", inp, NoOutcome, NoResp, 1, {})

ask_question(r) ==
    /\ variant = "process"
    /\ proc = "serving"
    /\ h[r].pc = "idle"
    /\ \E inp \in AskInputs :
         h' = [h EXCEPT ![r] = ask_question_slot(inp, project_client)]
    /\ UNCHANGED <<variant, cred, proc, launch, project_client, phi4_deployment>>

\* chat_complete dropping the shared client when the call raised
chat_complete_drops_client(r) ==
    /\ variant = "process"
    /\ h[r].pc = "calling"
    /\ h[r].kind = "ask"
    /\ \E out \in RemoteOutcomes :
         /\ h' = [h EXCEPT ![r] =
                    Slot("done", "ask", h[r].input, out, ask_answer(chat_with_phi4_rag(out)),
                         h[r].calls, IF out.kind = "ok" THEN {} ELSE {"inference"})]
         /\ project_client' = IF out.kind = "raise" THEN "None" ELSE project_client
    /\ UNCHANGED <<variant, cred, proc, launch, phi4_deployment>>

\* chat_client.complete returns or raises; chat_with_phi4_rag and ask_question
\* run to their return
chat_complete(r) ==
    /\ variant = "process"
    /\ h[r].pc = "calling"
    /\ h[r].kind = "ask"
    /\ \E out \in RemoteOutcomes :
         h' = [h EXCEPT ![r] =
                 Slot("done", "ask", h[r].input, out, ask_answer(chat_with_phi4_rag(out)),
                      h[r].calls, IF out.kind = "ok" THEN {} ELSE {"inference"})]
    /\ UNCHANGED <<variant, cred, proc, launch, project_client, phi4_deployment>>

----------------------------------------------------------------------------
(* src/app.py: POST /upload-pdf *)

ReadFailed(e) == [kind |-> "readfail", val |-> e]

\* file.read() raising, or else what the PDF parser does with the bytes
UploadOutcomes == {ReadFailed(e) : e \in ExcMsgs} \cup PdfOutcomes

\* extract_text_from_pdf(file): the text, or the text of the except branch
extract_text_from_pdf(out) ==
    IF out.kind = "ok" THEN out.val ELSE <<"Error extracting text: ">> \o out.val

upload_pdf_slot(inp, out) ==
    IF ~inp.hasFile
      THEN Slot("done", "upload", inp, NoOutcome,
                jsonify([error |-> <<"No file part">>], 400), 0, {"validation"})
    ELSE IF inp.filename = << >>
      THEN Slot("done", "upload", inp, NoOutcome,
                jsonify([error |-> <<"No selected file">>], 400), 0, {"validation"})
    ELSE IF allowed_file(inp.filename)
      THEN IF out.kind = "readfail"
             THEN Slot("done", "upload", inp, out,
                       jsonify([error |-> out.val], 500), 0, {"read"})
             ELSE Slot("done", "upload", inp, out,
                       jsonify([success |-> TRUE, text |-> extract_text_from_pdf(out)], 200),
                       0, IF out.kind = "ok" THEN {} ELSE {"extraction"})
    ELSE Slot("done", "upload", inp, NoOutcome,
              jsonify([error |-> <<"Invalid file type">>], 400), 0, {"validation"})

upload_pdf(r) ==
    /\ variant = "process"
    /\ proc = "serving"
    /\ h[r].pc = "idle"
    /\ \E inp \in UploadInputs, out \in UploadOutcomes :
         h' = [h EXCEPT ![r] = upload_pdf_slot(inp, out)]
    /\ UNCHANGED <<variant, cred, proc, launch, project_client, phi4_deployment>>

----------------------------------------------------------------------------
(* src/lambda_function.py *)

PreflightHeaders ==
    {"Access-Control-Allow-Origin", "Access-Control-Allow-Headers",
     "Access-Control-Allow-Methods"}

JsonHeaders == {"Access-Control-Allow-Origin", "Content-Type"}

\* the return of the OPTIONS branch
preflight_response == Resp(200, PreflightHeaders, << >>)

\* the return of the validation branch
validation_response == Resp(400, JsonHeaders, dumps([error |-> MissingMsg]))

\* the return after the model answered
success_response(answer) == Resp(200, JsonHeaders, dumps([answer |-> strip(answer)]))

\* the except branch returning its envelope without the CORS header
failure_response_no_cors(e) == Resp(500, {"Content-Type"}, dumps([error |-> e]))

\* the return of the except branch
failure_response(e) == Resp(500, JsonHeaders, dumps([error |-> e]))

\* json.loads(event.get('body', '{}')): the object, for the bodies that parse
event_body(ev) == IF ev.json = "absent" THEN EmptyObj ELSE ev.obj

\* lambda_handler up to the point where bedrock.invoke_model is entered:
\* boto3.client (outside the try), the OPTIONS branch, json.loads, validation
lambda_handler_slot(ev, clientOk) ==
    IF ~clientOk
      THEN Slot("raised", "lambda", ev, NoOutcome, NoResp, 0, {"client"})
    ELSE IF ev.httpMethod = "OPTIONS"
      THEN Slot("done", "lambda", ev, NoOutcome, preflight_response, 0, {})
    ELSE IF ev.json \in {"null", "notjson", "nonobject"}
      THEN Slot("done", "lambda", ev, NoOutcome,
                failure_response(<<"body is not a JSON object">>), 0, {"parse"})
    ELSE IF missing(event_body(ev))
      THEN Slot("done", "lambda", ev, NoOutcome, validation_response, 0, {"validation"})
    ELSE Slot("calling", "lambda", ev, NoOutcome, NoResp, 1, {})

lambda_handler(r) ==
    /\ variant = "function"
    /\ h[r].pc = "idle"
    /\ \E ev \in Events, clientOk \in BOOLEAN :
         h' = [h EXCEPT ![r] = lambda_handler_slot(ev, clientOk)]
    /\ UNCHANGED <<variant, cred, proc, launch, project_client, phi4_deployment>>

\* the rest of lambda_handler once bedrock.invoke_model returned or raised
invoke_model_response(out) ==
    IF out.kind = "ok" THEN success_response(out.val)
    ELSE IF out.kind = "raise" THEN failure_response(out.val)
    ELSE failure_response(<<"'NoneType' object is not subscriptable">>)

invoke_model(r) ==
    /\ variant = "function"
    /\ h[r].pc = "calling"
    /\ h[r].kind = "lambda"
    /\ \E out \in RemoteOutcomes :
         h' = [h EXCEPT ![r] =
                 Slot("done", "lambda", h[r].input, out, invoke_model_response(out),
                      h[r].calls, IF out.kind = "ok" THEN {} ELSE {"inference"})]
    /\ UNCHANGED <<variant, cred, proc, launch, project_client, phi4_deployment>>

----------------------------------------------------------------------------
(* Both variants *)

\* the response (or the unhandled exception) leaves the handler; the slot
\* takes the next request
respond(r) ==
    /\ h[r].pc \in {"done", "raised"}
    /\ h' = [h EXCEPT ![r] = Idle]
    /\ UNCHANGED <<variant, cred, proc, launch, project_client, phi4_deployment>>

Next ==
    \/ main
    \/ wsgi_import
    \/ \E r \in Reqs : ask_question(r)
    \/ \E r \in Reqs : chat_complete(r)
    \/ \E r \in Reqs : upload_pdf(r)
    \/ \E r \in Reqs : lambda_handler(r)
    \/ \E r \in Reqs : invoke_model(r)
    \/ \E r \in Reqs : respond(r)

Spec == Init /\ [][Next]_vars

----------------------------------------------------------------------------
(* Properties *)

Finished(r) == h[r].pc \in {"done", "raised"}

\* the request carries no usable context or question: the key is absent from
\* the body object (a body that is no object has no keys) or maps to ''
FieldAbsentOrEmpty(inp) ==
    \E k \in {"context", "question"} :
        \/ inp.json # "object"
        \/ k \notin DOMAIN inp.obj
        \/ inp.obj[k] = << >>

\* the request carries a non-empty context and a non-empty question
FieldsGiven(inp) ==
    /\ inp.json = "object"
    /\ \A k \in {"context", "question"} : k \in DOMAIN inp.obj /\ inp.obj[k] # << >>

\* the body reaches validation: it parses to a JSON object (an event without
\* a body key counts as the object {}), and the request is no preflight
ReachesValidation(r) ==
    /\ h[r].kind \in {"ask", "lambda"}
    /\ h[r].input.httpMethod # "OPTIONS"
    /\ \/ h[r].input.json = "object"
       \/ h[r].kind = "lambda" /\ h[r].input.json = "absent"

ErrorBody(r) == HasField(h[r].resp, "error")

C2_InferenceFailureIs500 ==
    \A r \in Reqs :
        (h[r].pc = "done" /\ h[r].kind \in {"ask", "lambda"}
         /\ FieldsGiven(h[r].input) /\ h[r].outcome.kind = "raise") =>
            /\ h[r].resp.status = 500
            /\ ErrorBody(r)
            /\ Field(h[r].resp, "error") # << >>

\* C3: in both variants, when the model returns the text s for a request with
\* non-empty context and question, the response is a 200 whose answer is s
\* with the surrounding whitespace removed.
C3_AnswerIsTrimmed ==
    \A r \in Reqs :
        (h[r].pc = "done" /\ h[r].kind \in {"ask", "lambda"}
         /\ FieldsGiven(h[r].input) /\ h[r].outcome.kind = "ok") =>
            /\ h[r].resp.status = 200
            /\ HasField(h[r].resp, "answer")
            /\ Field(h[r].resp, "answer") = strip(h[r].outcome.val)

\* C4: in the process variant, a request with non-empty context and question
\* handled while project_client is uninitialized ends with a 500 whose body
\* has an error field and no answer field, without a remote call.
C4_UninitializedIs500 ==
    \A r \in Reqs :
        (h[r].pc = "done" /\ h[r].kind = "ask" /\ FieldsGiven(h[r].input)
         /\ project_client = "None") =>
            /\ h[r].resp.status = 500
            /\ ErrorBody(r)
            /\ ~HasField(h[r].resp, "answer")
            /\ h[r].calls = 0

\* C5: in every handler, every error met while handling a request becomes a
\* response whose body has an error field, and no invocation ends with an
\* exception leaving the handler.
C5_AllErrorsCaught ==
    \A r \in Reqs :
        /\ h[r].pc # "raised"
        /\ (h[r].pc = "done" /\ h[r].errs # {}) => ErrorBody(r)

\* C6: a process started by `python app.py` serves (app.run) only after
\* initialize_azure_client succeeded: cred.json exists, is a JSON object with
\* the connection string, tenant ID and model deployment name keys, and
\* project_client is set.
C6_ServesOnlyWhenInitialized ==
    (launch = "main" /\ proc = "serving") =>
        /\ project_client # "None"
        /\ phi4_deployment # "None"
        /\ cred.file = "object"
        /\ {"PROJECT_CONNECTION_STRING", "TENANT_ID", "MODEL_DEPLOYMENT_NAME"}
              \subseteq cred.keys

C6_Witness ==
    /\ launch = "main"
    /\ proc = "serving"
    /\ "SERVERLESS_MODEL_NAME" \notin cred.keys
    /\ \E r \in Reqs : h[r].pc = "calling"

\* C7: an OPTIONS event always yields a 200 with CORS headers and an empty
\* body, whatever the event body, without validation or a model call.
C7_PreflightAlways200 ==
    \A r \in Reqs :
        (h[r].kind = "lambda" /\ h[r].input.httpMethod = "OPTIONS") =>
            /\ h[r].pc = "done"
            /\ h[r].resp.status = 200
            /\ "Access-Control-Allow-Origin" \in h[r].resp.headers
            /\ h[r].resp.body = << >>
            /\ h[r].calls = 0

\* C8: every response envelope lambda_handler returns (OPTIONS 200,
\* validation 400, success 200, failure 500) carries the
\* Access-Control-Allow-Origin header.
C8_EveryEnvelopeHasCors ==
    \A r \in Reqs :
        (h[r].kind = "lambda" /\ h[r].pc = "done") =>
            /\ h[r].resp.status \in {200, 400, 500}
            /\ "Access-Control-Allow-Origin" \in h[r].resp.headers

C8_Witness ==
    \E r \in Reqs :
        /\ h[r].kind = "lambda"
        /\ h[r].pc = "done"
        /\ h[r].outcome.kind = "raise"
        /\ h[r].resp.status = 500

\* C9: /upload-pdf answers 200 {success, text} only when text extraction
\* succeeded; a missing file, an empty filename or a non-.pdf name gives a 400
\* with an error, and the PDF parser raising gives a 500 with an error.
C9_UploadStatuses ==
    \A r \in Reqs :
        (h[r].pc = "done" /\ h[r].kind = "upload") =>
            /\ h[r].resp.status = 200 =>
                 (h[r].outcome.kind = "ok" /\ HasField(h[r].resp, "text"))
            /\ h[r].outcome.kind = "raise" => (h[r].resp.status = 500 /\ ErrorBody(r))
            /\ h[r].outcome.kind = "none" => (h[r].resp.status = 400 /\ ErrorBody(r))

\* C10: once the process has left startup no step changes project_client or
\* phi4_deployment, and a step of one request leaves every other in-flight
\* request as it was.
C10_HandleReadOnly ==
    [][ /\ proc # "boot" => handle' = handle
        /\ \A r \in Reqs :
             h'[r] # h[r] => \A q \in Reqs \ {r} : h'[q] = h[q] ]_vars

C10_Witness ==
    \E r, q \in Reqs :
        /\ r # q
        /\ project_client = "AIProjectClient"
        /\ h[r].pc = "done" /\ h[r].kind = "ask" /\ h[r].outcome.kind = "raise"
        /\ h[q].pc = "calling"

====
